---- MODULE Spec2Model ----
(***************************************************************************)
(* SurfaceManager (packages/phasor/src/surface.ts): the local mirror of a  *)
(* replicated map of canvas elements.  The store (a Y.Map of Y.Maps), the  *)
(* open transaction of its document, and the manager's cache, binding      *)
(* graph and order bounds are the state; the manager's methods, the writes *)
(* of other peers and the end of a transaction, at which the store calls   *)
(* the change handler, are the actions.                                    *)
(*                                                                         *)
(* Every write to the store happens in a transaction: one the host opens   *)
(* around several calls, one the document opens to apply the update of a   *)
(* peer, or the implicit one of a single write.  The change event of the   *)
(* transaction lists the keys it changed; _onYContainer handles it when    *)
(* the transaction ends.  Between a write and the end of its transaction   *)
(* the notification of the write is outstanding.                           *)
(*                                                                         *)
(* Order keys are modelled as integers.  The even numbers are the keys     *)
(* generateKeyBetween(k, null) produces ('a0', 'a1', 'a2', ...); the odd   *)
(* numbers are keys lying strictly between two of them ('a0V', ...), which *)
(* a peer or updateIndexes may assign.                                     *)
(***************************************************************************)
EXTENDS Integers, Sequences, FiniteSets, TLC

\* Bounds of the model.
MaxIds == 2
MaxKey == 6

\* indexes = { min: 'a0', max: 'a0' }
A0 == 2
\* null / undefined
NULL == 0

Ids == 1..MaxIds
Keys == 1..MaxKey

VARIABLES
  yMaps,       \* the element records (Y.Map objects) ever created, by id
  yContainer,  \* _yContainer: the ids that have a record in the store
  elements,    \* _elements: the ids that have a cached wrapper
  bindings,    \* _bindings: id -> set of ids
  indexes,     \* indexes: [min, max]
  transaction, \* the open transaction of the document, if any
  observing,   \* whether _onYContainer is observing _yContainer
  picked,      \* the last pickTop call: its inputs and its result
  peer         \* a second SurfaceManager on the same store, if one is attached

vars == <<yMaps, yContainer, elements, bindings, indexes, transaction, observing, picked, peer>>

\* ------------------------------------------------------------ records

ShapeRec(k) ==
  [type |-> "shape", index |-> k, startElement |-> NULL, endElement |-> NULL]

ConnectorRec(k, s, e) ==
  [type |-> "connector", index |-> k, startElement |-> s, endElement |-> e]

\* The properties a caller passes to addElement (the index is assigned by it).
ShapeProps == {[type |-> "shape", startElement |-> NULL, endElement |-> NULL]}

\* The connectors of the model start at the first element or nowhere, and end
\* at the last one or nowhere.
ConnectorProps ==
  [type : {"connector"}, startElement : {NULL, 1}, endElement : {NULL, MaxIds}]

NoPick == [cands |-> <<>>, hits |-> {}, result |-> NULL]

\* generateElementId(): an id no record ever had.
generateElementId == Len(yMaps) + 1

\* generateKeyBetween(a, b): a key strictly between a and b, null meaning no
\* bound on that side.  With b = null it is the next whole key after a.
generateKeyBetween(a, b) ==
  IF b = NULL THEN 2 * (a \div 2) + 2
  ELSE IF a = NULL THEN 2 * ((b - 1) \div 2)
  ELSE (a + b) \div 2

\* element.index of the wrapper of id: read from the record it wraps (for a
\* record deleted from the store, the key it had when it was deleted).
ElementIndex(id) == yMaps[id].index

\* ------------------------------------------------------------ bindings

addBinding(b, id0, id1) == [b EXCEPT ![id0] = @ \cup {id1}]

updateBindings(b, id) ==
  LET rec == yMaps[id]
      b1 == IF rec.startElement # NULL
            THEN addBinding(addBinding(b, rec.startElement, id), id, rec.startElement)
            ELSE b
  IN IF rec.type = "connector"
     THEN IF rec.endElement # NULL
          THEN addBinding(addBinding(b1, rec.endElement, id), id, rec.endElement)
          ELSE b1
     ELSE b

\* ------------------------------------------------- the manager's state

\* The part of the state the initial scan and the change handler write.
\* thrown: the handler raised an error and the rest of the batch was skipped.
Mgr(els, bnd, idx, thr) ==
  [elements |-> els, bindings |-> bnd, indexes |-> idx, thrown |-> thr]

EmptyBindings == [i \in Ids |-> {}]

\* _syncFromExistingContainer: one record of the forEach.
SyncOne(m, id) ==
  Mgr(m.elements \cup {id},
      updateBindings(m.bindings, id),
      IF ElementIndex(id) > m.indexes.max
      THEN [m.indexes EXCEPT !.max = ElementIndex(id)]
      ELSE IF ElementIndex(id) < m.indexes.min
           THEN [m.indexes EXCEPT !.min = ElementIndex(id)]
           ELSE m.indexes,
      FALSE)

\* Faulty variant of the add branch: the wrapper is mounted but never put
\* in the cache.
OnAddNotCached(m, id) ==
  IF id \notin yContainer
  THEN [m EXCEPT !.thrown = TRUE]
  ELSE Mgr(m.elements,
           updateBindings(m.bindings, id),
           IF ElementIndex(id) > m.indexes.max
           THEN [m.indexes EXCEPT !.max = ElementIndex(id)]
           ELSE m.indexes,
           FALSE)

\* The add branch of _onYContainer.
OnAdd(m, id) ==
  IF id \notin yContainer
  THEN [m EXCEPT !.thrown = TRUE]
  ELSE Mgr(m.elements \cup {id},
           updateBindings(m.bindings, id),
           IF ElementIndex(id) > m.indexes.max
           THEN [m.indexes EXCEPT !.max = ElementIndex(id)]
           ELSE m.indexes,
           FALSE)

\* Faulty variant of the delete branch: the wrapper is unmounted but stays
\* in the cache.
OnDeleteKeepsWrapper(m, id) ==
  IF id \notin m.elements
  THEN [m EXCEPT !.thrown = TRUE]
  ELSE Mgr(m.elements,
           m.bindings,
           IF ElementIndex(id) = m.indexes.min
           THEN [m.indexes EXCEPT !.min = generateKeyBetween(ElementIndex(id), NULL)]
           ELSE m.indexes,
           FALSE)

\* Faulty variant of the delete branch: it also takes the id out of the
\* binding sets of the other ids.
OnDeleteUnbinds(m, id) ==
  IF id \notin m.elements
  THEN [m EXCEPT !.thrown = TRUE]
  ELSE Mgr(m.elements \ {id},
           [j \in Ids |-> IF j = id THEN m.bindings[j] ELSE m.bindings[j] \ {id}],
           IF ElementIndex(id) = m.indexes.min
           THEN [m.indexes EXCEPT !.min = generateKeyBetween(ElementIndex(id), NULL)]
           ELSE m.indexes,
           FALSE)

\* The delete branch of _onYContainer.
OnDelete(m, id) ==
  IF id \notin m.elements
  THEN [m EXCEPT !.thrown = TRUE]
  ELSE Mgr(m.elements \ {id},
           m.bindings,
           IF ElementIndex(id) = m.indexes.min
           THEN [m.indexes EXCEPT !.min = generateKeyBetween(ElementIndex(id), NULL)]
           ELSE m.indexes,
           FALSE)

\* Faulty variant: an entry without an action ends the handler with an error.
OnEntryInvalidThrows(m, e) ==
  IF e.action = "none" THEN [m EXCEPT !.thrown = TRUE]
  ELSE IF e.action = "add" THEN OnAdd(m, e.id)
  ELSE IF e.action = "update" THEN m
  ELSE IF e.action = "delete" THEN OnDelete(m, e.id)
  ELSE m

\* One entry of event.keysChanged.
OnEntry(m, e) ==
  IF e.action = "none" THEN m
  ELSE IF e.action = "add" THEN OnAdd(m, e.id)
  ELSE IF e.action = "update" THEN m
  ELSE IF e.action = "delete" THEN OnDelete(m, e.id)
  ELSE m

\* event.keysChanged.forEach(...): an error ends the forEach.
RECURSIVE OnBatch(_, _)
OnBatch(m, batch) ==
  IF batch = <<>> \/ m.thrown THEN m
  ELSE OnBatch(OnEntry(m, Head(batch)), Tail(batch))

\* _onYContainer(event) of the manager m: an event without a change of a key
\* is skipped.
OnYContainer(m, batch) ==
  IF \A i \in DOMAIN batch : batch[i].action = "none"
  THEN m
  ELSE OnBatch(m, batch)

\* _onYContainer(event) of this manager.
OnYContainerResult(batch) ==
  OnYContainer(Mgr(elements, bindings, indexes, FALSE), batch)

\* No second manager is attached.
NoPeer ==
  [attached |-> FALSE, elements |-> {}, bindings |-> EmptyBindings,
   indexes |-> [min |-> A0, max |-> A0]]

\* The second manager with the cache, bindings and bounds of m.
Peer(m) ==
  [attached |-> TRUE, elements |-> m.elements, bindings |-> m.bindings,
   indexes |-> m.indexes]

\* ------------------------------------------------------------ the store

\* No transaction is open.
NoTransaction == [open |-> FALSE, before |-> {}, keysChanged |-> <<>>]

SeqRange(s) == {s[i] : i \in DOMAIN s}

\* A key written in the open transaction joins event.keysChanged once.
Changed(id) ==
  IF id \in SeqRange(transaction.keysChanged)
  THEN transaction
  ELSE [transaction EXCEPT !.keysChanged = Append(@, id)]

\* _yContainer.set(id, yMap), id being fresh.
StoreSet(id, yMap) ==
  /\ transaction.open
  /\ id <= MaxIds
  /\ yMaps' = Append(yMaps, yMap)
  /\ yContainer' = yContainer \cup {id}
  /\ transaction' = Changed(id)

\* _yContainer.delete(id): a key that is not there changes nothing.
StoreDelete(id) ==
  /\ transaction.open
  /\ yContainer' = yContainer \ {id}
  /\ transaction' = IF id \in yContainer THEN Changed(id) ELSE transaction
  /\ UNCHANGED yMaps

\* event.changes.keys.get(id): what the transaction did to the key, from the
\* store before it and the store after it.  A key added and deleted in the
\* same transaction has no action.
ChangeAction(id) ==
  IF id \in transaction.before
  THEN IF id \in yContainer THEN "update" ELSE "delete"
  ELSE IF id \in yContainer THEN "add" ELSE "none"

\* The change event of the transaction: its changed keys and their actions.
ChangeEvent ==
  [i \in DOMAIN transaction.keysChanged |->
     [id |-> transaction.keysChanged[i],
      action |-> ChangeAction(transaction.keysChanged[i])]]

\* Faulty variant: the handler is still called after unobserve.
CallObserversAlways(event) ==
  IF event # <<>>
  THEN OnYContainerResult(event)
  ELSE Mgr(elements, bindings, indexes, FALSE)

\* The observers of _yContainer are called with the event: _onYContainer
\* while it is observing, and only for an event that changed a key.
CallObservers(event) ==
  IF observing /\ event # <<>>
  THEN OnYContainerResult(event)
  ELSE Mgr(elements, bindings, indexes, FALSE)

\* ------------------------------------------------------------ actions

\* doc.transact(...) begins: by the host around several calls, by the
\* document applying the update of a peer, or implicitly by a single write.
Transact ==
  /\ ~transaction.open
  /\ transaction' = [open |-> TRUE, before |-> yContainer, keysChanged |-> <<>>]
  /\ UNCHANGED <<yMaps, yContainer, elements, bindings, indexes, observing, picked, peer>>

\* The transaction ends: the store calls the observers with its change event.
Commit ==
  /\ transaction.open
  /\ LET m == CallObservers(ChangeEvent) IN
       /\ elements' = m.elements
       /\ bindings' = m.bindings
       /\ indexes' = m.indexes
  /\ peer' = IF peer.attached /\ ChangeEvent # <<>>
             THEN Peer(OnYContainer(Mgr(peer.elements, peer.bindings, peer.indexes, FALSE),
                                    ChangeEvent))
             ELSE peer
  /\ transaction' = NoTransaction
  /\ UNCHANGED <<yMaps, yContainer, observing, picked>>

\* Faulty variant: the call caches the new element itself, without waiting
\* for the notification of its write.
AddElementCaches(props) ==
  LET index == generateKeyBetween(indexes.max, NULL) IN
  /\ index <= MaxKey
  /\ StoreSet(generateElementId,
              [type |-> props.type, index |-> index,
               startElement |-> props.startElement,
               endElement |-> props.endElement])
  /\ elements' = elements \cup {generateElementId}
  /\ UNCHANGED <<bindings, indexes, observing, picked, peer>>

\* The order key addElement gives to the element it adds.
addElementIndex == generateKeyBetween(indexes.max, NULL)

\* addElement(type, properties)
AddElement(props) ==
  LET index == addElementIndex IN
  /\ index <= MaxKey
  /\ StoreSet(generateElementId,
              [type |-> props.type, index |-> index,
               startElement |-> props.startElement,
               endElement |-> props.endElement])
  /\ UNCHANGED <<elements, bindings, indexes, observing, picked, peer>>

\* addElement(type, properties) of the second manager: the key comes from
\* its own indexes.max.
PeerAddElement(props) ==
  LET index == generateKeyBetween(peer.indexes.max, NULL) IN
  /\ peer.attached
  /\ index <= MaxKey
  /\ StoreSet(generateElementId,
              [type |-> props.type, index |-> index,
               startElement |-> props.startElement,
               endElement |-> props.endElement])
  /\ UNCHANGED <<elements, bindings, indexes, observing, picked, peer>>

\* removeElement(id)
RemoveElement(id) ==
  /\ StoreDelete(id)
  /\ UNCHANGED <<elements, bindings, indexes, observing, picked, peer>>

\* The state of a running updateIndexes: the records, the positions of the
\* list for which a key was written, and whether the loop ended with an error.
Reindexed(maps, writes, thr) == [yMaps |-> maps, writes |-> writes, thrown |-> thr]

\* Faulty variant: the key is written even when the record already holds it.
RECURSIVE ReindexAlwaysWrites(_, _, _, _)
ReindexAlwaysWrites(r, keys, elems, i) ==
  IF i > Len(elems) THEN r
  ELSE IF elems[i] \notin yContainer THEN Reindexed(r.yMaps, r.writes, TRUE)
  ELSE ReindexAlwaysWrites(
         Reindexed([r.yMaps EXCEPT ![elems[i]].index = keys[i]], r.writes \cup {i}, FALSE),
         keys, elems, i + 1)

\* updateIndexes(keys, elements, callback): the loop; a record that is no
\* longer in the store ends it with an error, the writes before it stay.
RECURSIVE ReindexFrom(_, _, _, _)
ReindexFrom(r, keys, elems, i) ==
  IF i > Len(elems) THEN r
  ELSE IF elems[i] \notin yContainer THEN Reindexed(r.yMaps, r.writes, TRUE)
  ELSE IF r.yMaps[elems[i]].index = keys[i]
       THEN ReindexFrom(r, keys, elems, i + 1)
       ELSE ReindexFrom(
              Reindexed([r.yMaps EXCEPT ![elems[i]].index = keys[i]], r.writes \cup {i}, FALSE),
              keys, elems, i + 1)

\* updateIndexes(keys, elements, callback) inside its transaction: the loop,
\* then callback(keys), which an error of the loop leaves uncalled.
updateIndexes(keys, elems) ==
  LET r == ReindexFrom(Reindexed(yMaps, {}, FALSE), keys, elems, 1) IN
  [yMaps |-> r.yMaps, writes |-> r.writes, thrown |-> r.thrown,
   callbacks |-> IF r.thrown THEN 0 ELSE 1]

UpdateIndexes(keys, elems) ==
  /\ transaction.open
  /\ Len(keys) = Len(elems)
  /\ yMaps' = updateIndexes(keys, elems).yMaps
  /\ UNCHANGED <<yContainer, elements, bindings, indexes, transaction, observing, picked, peer>>

\* What a call returns to its caller: the records as the call leaves them,
\* and whether it ended with an error.
Returned(maps, thr) == [yMaps |-> maps, thrown |-> thr]

\* Faulty variant: the record is looked up in the store instead of the cache,
\* so an id with a record and without a wrapper is patched all the same.
updateElementUnchecked(id, props) ==
  IF id \notin yContainer
  THEN Returned(yMaps, TRUE)
  ELSE IF yMaps[id].type = "connector"
       THEN Returned([yMaps EXCEPT ![id].startElement = props.startElement,
                                   ![id].endElement = props.endElement], FALSE)
       ELSE Returned(yMaps, FALSE)

\* updateElement(id, properties): assertExists(element), then the wrapper
\* writes the properties to its record (of the properties, the model keeps
\* the endpoints of a connector).
updateElement(id, props) ==
  IF id \notin elements
  THEN Returned(yMaps, TRUE)
  ELSE IF yMaps[id].type = "connector"
       THEN Returned([yMaps EXCEPT ![id].startElement = props.startElement,
                                   ![id].endElement = props.endElement], FALSE)
       ELSE Returned(yMaps, FALSE)

UpdateElement(id, props) ==
  /\ transaction.open
  /\ yMaps' = updateElement(id, props).yMaps
  /\ UNCHANGED <<yContainer, elements, bindings, indexes, transaction, observing, picked, peer>>

\* A peer (or another consumer of the document) adds a record.
RemoteAdd(yMap) ==
  /\ StoreSet(generateElementId, yMap)
  /\ UNCHANGED <<elements, bindings, indexes, observing, picked, peer>>

\* A peer (or another consumer of the document) deletes a record.
RemoteDelete(id) ==
  /\ StoreDelete(id)
  /\ UNCHANGED <<elements, bindings, indexes, observing, picked, peer>>

\* dispose(): unobserve.
Dispose ==
  /\ observing
  /\ observing' = FALSE
  /\ UNCHANGED <<yMaps, yContainer, elements, bindings, indexes, transaction, picked, peer>>

\* ------------------------------------------------------------ construction

\* _syncFromExistingContainer(): the forEach over the records of the store.
RECURSIVE SyncFrom(_, _)
SyncFrom(m, ids) ==
  IF ids = <<>> THEN m ELSE SyncFrom(SyncOne(m, Head(ids)), Tail(ids))

\* new SurfaceManager(yContainer) over a store that holds the records recs.
Constructed(recs) ==
  /\ yMaps = recs
  /\ yContainer = DOMAIN recs
  /\ LET m == SyncFrom(Mgr({}, EmptyBindings, [min |-> A0, max |-> A0], FALSE),
                       [i \in DOMAIN recs |-> i]) IN
       /\ elements = m.elements
       /\ bindings = m.bindings
       /\ indexes = m.indexes
  /\ transaction = NoTransaction
  /\ observing = TRUE
  /\ picked = NoPick

\* One manager is constructed over the store.
Construct(recs) == Constructed(recs) /\ peer = NoPeer

\* Two managers are constructed over the same store: the second one scans
\* the same records.
ConstructTwo(recs) ==
  Constructed(recs) /\ peer = Peer(Mgr(elements, bindings, indexes, FALSE))

\* ------------------------------------------------------------ queries

\* hasElement(id)
hasElement(id) == id \in yContainer

\* pickById(id): the wrapper, or undefined.
pickById(id) == IF id \in elements THEN id ELSE NULL

\* getBindingElements(id)
getBindingElements(id) == {b \in bindings[id] : pickById(b) # NULL}

\* gridManager.search(bound): the mounted elements whose bound overlaps the
\* probe, in ascending order of their keys (elements with equal keys in
\* either order).  cands is such a result when its elements are distinct,
\* mounted and ordered, and no element that passes the hit test is missing.
IsSearchResult(cands, hits) ==
  /\ \A i, j \in DOMAIN cands : i < j =>
       cands[i] # cands[j] /\ ElementIndex(cands[i]) <= ElementIndex(cands[j])
  /\ SeqRange(cands) \subseteq elements
  /\ hits \subseteq SeqRange(cands)

\* candidates.filter(element => element.hitTest(x, y, options))
RECURSIVE pickByPoint(_, _)
pickByPoint(cands, hits) ==
  IF cands = <<>> THEN <<>>
  ELSE IF Head(cands) \in hits
       THEN <<Head(cands)>> \o pickByPoint(Tail(cands), hits)
       ELSE pickByPoint(Tail(cands), hits)

\* Faulty variant: the first picked element instead of the last.
pickTopFirst(cands, hits) ==
  LET results == pickByPoint(cands, hits) IN
  IF results = <<>> THEN NULL ELSE results[1]

\* results[results.length - 1] ?? null
pickTop(cands, hits) ==
  LET results == pickByPoint(cands, hits) IN
  IF results = <<>> THEN NULL ELSE results[Len(results)]

\* pickTop(x, y), where the spatial index answers cands and the elements of
\* hits are those whose hit test passes at (x, y).
PickTop(cands, hits) ==
  /\ IsSearchResult(cands, hits)
  /\ picked' = [cands |-> cands, hits |-> hits, result |-> pickTop(cands, hits)]
  /\ UNCHANGED <<yMaps, yContainer, elements, bindings, indexes, transaction, observing, peer>>

\* ------------------------------------------------------------ inputs

\* The keys handed to updateIndexes: 'a0', the keys below it and the two next
\* keys above it.
ReindexKeys == {k \in Keys : k <= generateKeyBetween(A0, NULL)}

SeqsUpTo(S, n) == UNION {[1..k -> S] : k \in 0..n}

ShapeRecs == {ShapeRec(k) : k \in Keys}

\* Records with endpoint references, all with the key 'a0'.
BindRecs ==
  {ShapeRec(A0)} \cup {ConnectorRec(A0, p.startElement, p.endElement) : p \in ConnectorProps}

LiveIds == 1..Len(yMaps)

\* No connector of the model has itself as an endpoint.
NotItself(id, props) == id \notin {props.startElement, props.endElement}

BindStores ==
  {recs \in SeqsUpTo(BindRecs, MaxIds) : \A i \in DOMAIN recs : NotItself(i, recs[i])}

\* ------------------------------------------- order keys and the cache

Init == \E recs \in SeqsUpTo(ShapeRecs, MaxIds) : Construct(recs)

Next ==
  \/ Transact
  \/ \E props \in ShapeProps : AddElement(props)
  \/ \E id \in LiveIds : RemoveElement(id)
  \/ \E id \in elements, key \in ReindexKeys : UpdateIndexes(<<key>>, <<id>>)
  \/ \E yMap \in ShapeRecs : RemoteAdd(yMap)
  \/ \E id \in LiveIds : RemoteDelete(id)
  \/ Commit
  \/ Dispose

Spec == Init /\ [][Next]_vars

\* ------------------------------------------- addElement calls only

InitAdd == Construct(<<>>)

NextAdd ==
  \/ Transact
  \/ \E props \in ShapeProps \cup ConnectorProps : AddElement(props)
  \/ Commit

SpecAdd == InitAdd /\ [][NextAdd]_vars

\* ------------------------------------------- the binding graph

InitBind == \E recs \in BindStores : Construct(recs)

NextBind ==
  \/ Transact
  \/ \E props \in ShapeProps \cup ConnectorProps :
       NotItself(generateElementId, props) /\ AddElement(props)
  \/ \E id \in LiveIds : RemoveElement(id)
  \/ \E id \in LiveIds, props \in ConnectorProps :
       NotItself(id, props) /\ UpdateElement(id, props)
  \/ Commit

SpecBind == InitBind /\ [][NextBind]_vars

\* The entries of a change event: a changed key and its action ("none" for a
\* key the event names no action for). An "add" entry names a record.
Entries ==
  {e \in [id : LiveIds, action : {"add", "update", "delete", "none"}] :
     e.action = "add" => hasElement(e.id)}

\* The entry is one the handler acts on.
IsAddOrDelete(e) == e.action \in {"add", "delete"}

\* ------------------------------------------- the handler and its batches

InitBatch == \E recs \in BindStores : Construct(recs)

\* Transactions of adds and removals, whose events the handler is called with.
NextBatch ==
  \/ Transact
  \/ \E props \in ShapeProps \cup ConnectorProps :
       NotItself(generateElementId, props) /\ AddElement(props)
  \/ \E id \in LiveIds : RemoveElement(id)
  \/ Commit

SpecBatch == InitBatch /\ [][NextBatch]_vars

\* The stores in which no two records hold the same key.
DistinctStores ==
  {recs \in SeqsUpTo(ShapeRecs, MaxIds) :
     \A i, j \in DOMAIN recs : i # j => recs[i].index # recs[j].index}

\* ------------------------------------------- two managers on one store

InitPeers == \E recs \in DistinctStores : ConstructTwo(recs)

NextPeers ==
  \/ Transact
  \/ \E props \in ShapeProps : AddElement(props)
  \/ \E props \in ShapeProps : PeerAddElement(props)
  \/ \E id \in LiveIds : RemoveElement(id)
  \/ Commit

SpecPeers == InitPeers /\ [][NextPeers]_vars

\* ------------------------------------------- pickTop

InitPick == \E recs \in SeqsUpTo(ShapeRecs, MaxIds) : Construct(recs)

NextPick ==
  \E cands \in SeqsUpTo(elements, MaxIds), hits \in SUBSET elements :
    PickTop(cands, hits)

SpecPick == InitPick /\ [][NextPick]_vars

\* ------------------------------------------- updateIndexes on a list

\* The lists of elements handed to updateIndexes: one wrapper, or two
\* different ones, of those the host got from the manager (a wrapper stays in
\* the host's hands after its record was removed).
ReindexLists ==
  {<<a>> : a \in LiveIds} \cup {p \in LiveIds \X LiveIds : p[1] # p[2]}

KeyLists(elems) == [DOMAIN elems -> ReindexKeys]

InitReindex ==
  \E recs \in SeqsUpTo({ShapeRec(k) : k \in ReindexKeys}, MaxIds) : Construct(recs)

NextReindex ==
  \/ Transact
  \/ \E id \in LiveIds : RemoveElement(id)
  \/ \E elems \in ReindexLists : \E keys \in KeyLists(elems) : UpdateIndexes(keys, elems)
  \/ Commit

SpecReindex == InitReindex /\ [][NextReindex]_vars

\* ------------------------------------------------------------ properties

\* The step is the end of a transaction whose change event reaches the handler.
Handled == transaction.open /\ ~transaction'.open /\ observing

\* The step is the handling of the change event of removeElement(id) alone.
HandledRemovalOf(id) ==
  Handled /\ id \in elements /\ ChangeEvent = <<[id |-> id, action |-> "delete"]>>

\* The ids the change event of the open transaction reports as deleted.
Deleted == {id \in SeqRange(transaction.keysChanged) : ChangeAction(id) = "delete"}

\* C1: the keys addElement assigns increase strictly in call order, and once
\* the notifications of the calls are handled indexes.max is the key of the
\* last call.  The store is empty at construction under SpecAdd, so every
\* record is one addElement call, in the order of the ids.
C1_AddKeysIncrease ==
  /\ \A i, j \in LiveIds : i < j => yMaps[i].index < yMaps[j].index
  /\ (~transaction.open /\ yMaps # <<>>) => indexes.max = yMaps[Len(yMaps)].index

\* C2: when the delete notification of a cached id is handled, the id is in
\* neither the store nor the cache afterwards, and every cached element that
\* was not deleted with it is still cached.
C2_RemovedIsGone ==
  [][\A id \in Ids :
       (Handled /\ id \in Deleted /\ id \in elements) =>
         /\ ~hasElement(id)'
         /\ pickById(id)' = NULL
         /\ \A other \in elements \ Deleted : pickById(other)' = other]_vars

C2_Witness ==
  /\ observing
  /\ ~transaction.open
  /\ elements # {}
  /\ \E id \in LiveIds : ~hasElement(id) /\ pickById(id) = NULL

\* C3: when the handled delete notification removes an element whose key is
\* indexes.min, the new indexes.min is strictly less than the key of every
\* element left in the cache.
C3_NewMinBelowSurvivors ==
  [][\A id \in Ids :
       (Handled /\ id \in Deleted /\ id \in elements
          /\ ElementIndex(id) = indexes.min) =>
         \A other \in elements' : indexes'.min < ElementIndex(other)]_vars

\* C4: the key of every cached element lies within the order bounds.
C4_KeysWithinBounds ==
  \A id \in elements :
    indexes.min <= ElementIndex(id) /\ ElementIndex(id) <= indexes.max

\* C5: the binding graph is symmetric, and a cached connector and each of
\* its cached endpoints are among each other's binding elements.
C5_BindingsSymmetric ==
  /\ \A a, b \in Ids : b \in bindings[a] <=> a \in bindings[b]
  /\ \A c \in elements : yMaps[c].type = "connector" =>
       \A e \in {yMaps[c].startElement, yMaps[c].endElement} :
         (e # NULL /\ pickById(e) # NULL) =>
           e \in getBindingElements(c) /\ c \in getBindingElements(e)

\* C6: once the delete notification of an id is handled, no binding set
\* contains the id and the id's own binding set is empty.
C6_NoEdgeToRemoved ==
  [][\A id \in Ids :
       (Handled /\ id \in Deleted /\ id \in elements) =>
         bindings'[id] = {} /\ \A j \in Ids : id \notin bindings'[j]]_vars

\* C7: removing an element that is not a connector, the removeElement call
\* and the handling of its delete notification alike, leaves the binding set
\* of every other id as it was.
C7_RemoveShapeKeepsBindings ==
  [][\A id \in LiveIds :
       (/\ yMaps[id].type = "shape"
        /\ \/ transaction.open /\ hasElement(id) /\ ~hasElement(id)'
           \/ HandledRemovalOf(id)) =>
         \A j \in Ids \ {id} : bindings'[j] = bindings[j]]_vars

C7_Witness ==
  /\ ~transaction.open
  /\ \E id \in LiveIds :
       /\ yMaps[id].type = "shape"
       /\ ~hasElement(id)
       /\ pickById(id) = NULL
       /\ \E c \in elements : id \in bindings[c]

C9_CacheMirrorsStore ==
  (observing /\ ~transaction.open) => elements = yContainer

C9_Witness ==
  /\ observing
  /\ ~transaction.open
  /\ elements # {}
  /\ \E id \in LiveIds : id \notin yContainer

\* C10: dispose() changes no record of the store, and once the listener is
\* detached no step changes the cache, the binding graph or the order bounds.
C10_DisposeDetaches ==
  [][/\ (observing /\ ~observing') => UNCHANGED <<yMaps, yContainer>>
     /\ ~observing => (~observing' /\ UNCHANGED <<elements, bindings, indexes>>)]_vars

C10_Witness ==
  /\ ~observing
  /\ ~transaction.open
  /\ elements # yContainer

\* C11: updateElement with an id that has no cached wrapper ends with an
\* error and writes nothing: in every state, for every such id and every
\* properties, the call returns the records as they were (the call writes
\* nothing but records).
C11_UpdateMissingAborts ==
  \A id \in Ids \ elements : \A props \in ConnectorProps :
    updateElement(id, props).thrown /\ updateElement(id, props).yMaps = yMaps

\* A connector has a record and no wrapper (it was added in the open
\* transaction), and a call with other endpoints is at hand.
C11_Witness ==
  /\ transaction.open
  /\ \E id \in LiveIds \ elements : \E props \in ConnectorProps :
       /\ yMaps[id].type = "connector"
       /\ hasElement(id)
       /\ props.startElement # yMaps[id].startElement

\* C12: the cache, the binding graph and the bounds are written by the
\* change handler only: a step that changes one of them is the handling of a
\* committed batch, and a step of addElement or removeElement (it writes the
\* store) leaves all three as they were.
C12_OnlyHandlerWritesCache ==
  [][/\ <<elements, bindings, indexes>>' # <<elements, bindings, indexes>> => Handled
     /\ yContainer' # yContainer => UNCHANGED <<elements, bindings, indexes>>]_vars

\* addElement and removeElement have both written the store, and the cache
\* still holds what it held before them.
C12_Witness ==
  /\ transaction.open
  /\ yContainer \ elements # {}
  /\ elements \ yContainer # {}

\* C13: updateIndexes is all or nothing: in every state, for every list of
\* elements and keys, the call either reassigns every listed key and calls
\* the callback once, or writes nothing and calls nothing; the transaction
\* never commits a list of which only a part was reassigned.
C13_ReindexAllOrNothing ==
  \A elems \in ReindexLists : \A keys \in KeyLists(elems) :
    LET r == updateIndexes(keys, elems) IN
    \/ /\ r.callbacks = 1
       /\ \A i \in DOMAIN elems : r.yMaps[elems[i]].index = keys[i]
    \/ /\ r.callbacks = 0
       /\ r.yMaps = yMaps

\* The lists of elements that all have a record (and with it a stored key).
StoredLists == {elems \in ReindexLists : \A i \in DOMAIN elems : hasElement(elems[i])}

\* C14: for a list of different elements that have a stored key,
\* updateIndexes writes the key of element i exactly when keys[i] differs
\* from the stored one; after the call every listed element holds keys[i],
\* and every other record is as it was.
C14_ReindexWritesDiffering ==
  \A elems \in StoredLists : \A keys \in KeyLists(elems) :
    LET r == updateIndexes(keys, elems) IN
    /\ ~r.thrown
    /\ \A i \in DOMAIN elems :
         /\ i \in r.writes <=> keys[i] # yMaps[elems[i]].index
         /\ r.yMaps[elems[i]] = [yMaps[elems[i]] EXCEPT !.index = keys[i]]
    /\ \A id \in LiveIds \ SeqRange(elems) : r.yMaps[id] = yMaps[id]

\* Inside a transaction that has reassigned a key already, a list of two
\* stored elements is at hand with one key to keep and one to change, next
\* to a list that leaves an element out.
C14_Witness ==
  /\ transaction.open
  /\ \E id \in LiveIds : yMaps[id].index # A0 /\ indexes.min = A0 /\ indexes.max = A0
  /\ \E elems \in StoredLists : \E keys \in KeyLists(elems) :
       /\ Len(elems) = 2
       /\ keys[1] = yMaps[elems[1]].index
       /\ keys[2] # yMaps[elems[2]].index
  /\ \E elems \in StoredLists : LiveIds \ SeqRange(elems) # {}

\* On the batch the handler ends as it does on the batch without the entries
\* it does not act on, and with no change at all if there is no other entry.
SkipsIn(batch) ==
  /\ OnYContainerResult(batch) = OnYContainerResult(SelectSeq(batch, IsAddOrDelete))
  /\ SelectSeq(batch, IsAddOrDelete) = <<>>
       => OnYContainerResult(batch) = Mgr(elements, bindings, indexes, FALSE)

\* C15: entries with the action 'update' and entries without an action are
\* skipped and the other entries of the batch are still handled: for the
\* empty batch, the event of the open transaction, every batch of one entry
\* and every batch of an entry the handler acts on and one it does not (in
\* either order), the handler ends as it does for the batch without the
\* skipped entries, and a batch with nothing but skipped entries leaves
\* cache, bindings and bounds as they are.
C15_SkippedEntriesChangeNothing ==
  /\ SkipsIn(<<>>)
  /\ SkipsIn(ChangeEvent)
  /\ \A e \in Entries : SkipsIn(<<e>>)
  /\ \A e1 \in Entries : \A e2 \in Entries :
       IsAddOrDelete(e1) # IsAddOrDelete(e2) => SkipsIn(<<e1, e2>>)

\* The event of the open transaction names a key without an action (added
\* and removed in the transaction) before the key of an added connector,
\* which the handler is about to cache and bind.
C15_Witness ==
  /\ transaction.open
  /\ observing
  /\ \E i, j \in DOMAIN ChangeEvent :
       /\ i < j
       /\ ChangeEvent[i].action = "none"
       /\ ChangeEvent[j].action = "add"
       /\ yMaps[ChangeEvent[j].id].type = "connector"
  /\ ~OnYContainerResult(ChangeEvent).thrown
  /\ OnYContainerResult(ChangeEvent).elements # elements

\* The handler can act on the entry: the added record is in the store, the
\* deleted element is in the cache.
Applicable(e) ==
  \/ e.action = "add" /\ hasElement(e.id)
  \/ e.action = "delete" /\ e.id \in elements

\* C16: the handler is idempotent and indifferent to the order of a batch:
\* an add or delete entry handled twice ends, without an error, in the cache,
\* bindings and bounds of handling it once, and two entries of different ids
\* end in the same cache, bindings and bounds in either order.
C16_HandlerIdempotent ==
  /\ \A e \in Entries :
       Applicable(e) => OnYContainerResult(<<e, e>>) = OnYContainerResult(<<e>>)
  /\ \A e1, e2 \in Entries :
       Applicable(e1) /\ Applicable(e2) /\ e1.id # e2.id
         => OnYContainerResult(<<e1, e2>>) = OnYContainerResult(<<e2, e1>>)

\* C17: the handling of the removal of one element moves indexes.min to a
\* key below the removed key when the removed key was indexes.min, leaves
\* indexes.min alone otherwise, and leaves indexes.max alone in both cases.
C17_DeleteLowersMin ==
  [][\A id \in LiveIds :
       HandledRemovalOf(id)
         => /\ ElementIndex(id) = indexes.min => indexes'.min < ElementIndex(id)
            /\ ElementIndex(id) # indexes.min => indexes'.min = indexes.min
            /\ indexes'.max = indexes.max]_vars

\* C18: in every state the key addElement would assign is above the key of
\* every cached element.
C18_AddedKeyOnTop ==
  \A id \in elements : ElementIndex(id) < addElementIndex

\* C19: indexes.max never decreases, and after every handled batch
\* indexes.min <= indexes.max.
C19_BoundsWellFormed ==
  [][/\ indexes'.max >= indexes.max
     /\ Handled => indexes'.min <= indexes'.max]_vars

\* C20: with two managers adding to the same store, once every notification
\* is delivered no two elements of the store hold the same order key.
C20_PeersKeysDistinct ==
  ~transaction.open
    => \A a, b \in yContainer : a # b => ElementIndex(a) # ElementIndex(b)

====
